---- MODULE Spec2Model ----
(***************************************************************************)
(* A model of render_tree.js, the decision-tree renderer: the helper       *)
(* functions truncateText and buildHierarchy and the main script, which    *)
(* parses the payload, builds the hierarchy, sizes the nodes, lays the     *)
(* tree out, normalises the canvas, draws the scene and writes the         *)
(* document to standard output.                                            *)
(*                                                                         *)
(* Text is a sequence of one-character strings.  Lengths are kept in       *)
(* tenths of a drawing unit so that the 7.2 and 6.0 character widths are   *)
(* integers; the arithmetic is exact where the script uses doubles.        *)
(***************************************************************************)
EXTENDS Integers, Sequences, FiniteSets, TLC

VARIABLES
    pc,         \* position of the running script or harness
    trunc,      \* truncateText harness: [text, maxWidth, once, twice]
    outp,       \* output-annotation harness: [output, drawn]
    build,      \* buildHierarchy harness: [nodes, edges, extra, base, extended]
    argv,       \* the payload handed to the script (process.argv[2])
    hier,       \* hierarchicalData: the result of buildHierarchy
    root,       \* the d3.hierarchy view: sorted children, depth, parent
    calc,       \* _calculatedWidth / _calculatedHeight per node
    layout,     \* x / y per node after treeLayout(root)
    canvas,     \* bounding box, translation and final svg size
    scene,      \* the primitives appended to the svg so far
    stdout,     \* the documents written with console.log
    stderr,     \* the diagnostics written with console.warn / console.error
    exitCode    \* -1 while running, then the process exit code

vars == <<pc, trunc, outp, build, argv, hier, root, calc, layout, canvas,
          scene, stdout, stderr, exitCode>>

harnessVars == <<trunc, outp, build>>
mainVars == <<argv, hier, root, calc, layout, canvas, scene, stdout, stderr, exitCode>>

(***************************************************************************)
(* Program constants (render_tree.js lines 9-64).                          *)
(***************************************************************************)
NODE_FONT_SIZE == 12
PARSER_FONT_SIZE == 10
MAX_VALUE_WIDTH == 300
INPUT_BOX_HEIGHT == 40
OUTPUT_BOX_HEIGHT == 40
INPUT_TO_ROOT_SPACE == 125
LEAF_TO_PARSER_SPACE == 8
LEAF_TO_OUTPUT_SPACE == 20
MARGIN_top == 30
MARGIN_right == 40
MARGIN_bottom == 30
MARGIN_left == 40
MAIN_SHAPE_WIDTH == 200
MAIN_SHAPE_HEIGHT == 40
PARSER_BOX_HEIGHT == 22

\* NODE_FONT_SIZE * 0.6, in tenths of a unit
MONO_CHAR_WIDTH == NODE_FONT_SIZE * 6
\* PARSER_FONT_SIZE * 0.6, in tenths of a unit
MONO_CHAR_WIDTH_PARSER == PARSER_FONT_SIZE * 6

(***************************************************************************)
(* Bounds of the model.                                                    *)
(***************************************************************************)
MaxLen == 7         \* longest text handed to the truncateText harness
MaxOutLen == 5      \* longest output string handed to the output harness
MaxBuildNodes == 3  \* most nodes handed to the buildHierarchy harness
MaxBuildEdges == 2  \* most edges handed to the buildHierarchy harness
MaxNodes == 5       \* most nodes of a payload handed to the main script

(***************************************************************************)
(* Strings.                                                                *)
(***************************************************************************)
Max(a, b) == IF a >= b THEN a ELSE b
Min(a, b) == IF a <= b THEN a ELSE b

\* The sequences over S of length at most n.
SeqsUpTo(S, n) == UNION {[1..k -> S] : k \in 0..n}

\* String.prototype.substring(start, end): indices are clamped to the string
\* and swapped when start > end; positions are 0-based, end exclusive.
substring(s, start, end) ==
    LET a == Max(0, Min(start, Len(s)))
        b == Max(0, Min(end, Len(s)))
    IN SubSeq(s, Min(a, b) + 1, Max(a, b))

\* String.prototype.toLowerCase on the letters the labels use.
LowerOf(c) ==
    CASE c = "T" -> "t" [] c = "R" -> "r" [] c = "U" -> "u" [] c = "E" -> "e"
      [] c = "F" -> "f" [] c = "A" -> "a" [] c = "L" -> "l" [] c = "S" -> "s"
      [] c = "Y" -> "y" [] OTHER -> c

toLowerCase(s) == [i \in 1..Len(s) |-> LowerOf(s[i])]

(***************************************************************************)
(* truncateText (lines 70-92).  maxWidth is in tenths of a unit.           *)
(***************************************************************************)
ellipsis == <<".", ".", ".">>

\* Mutant: the right part is taken from index rightChars instead of from
\* text.length - rightChars.
truncateText_rightFromStart(text, maxWidth) ==
    IF Len(text) * MONO_CHAR_WIDTH <= maxWidth THEN text
    ELSE LET keepChars == (maxWidth - Len(ellipsis) * MONO_CHAR_WIDTH) \div MONO_CHAR_WIDTH
         IN IF keepChars <= 1 THEN ellipsis
            ELSE LET leftChars == (keepChars + 1) \div 2
                     rightChars == keepChars - leftChars
                 IN substring(text, 0, leftChars) \o ellipsis
                        \o substring(text, rightChars, Len(text))

\* Mutant: no room is set aside for the ellipsis.
truncateText_noEllipsisRoom(text, maxWidth) ==
    IF Len(text) * MONO_CHAR_WIDTH <= maxWidth THEN text
    ELSE LET availableWidth == maxWidth
             keepChars == availableWidth \div MONO_CHAR_WIDTH
         IN IF keepChars <= 1 THEN ellipsis
            ELSE LET leftChars == (keepChars + 1) \div 2
                     rightChars == keepChars - leftChars
                 IN substring(text, 0, leftChars) \o ellipsis
                        \o substring(text, Len(text) - rightChars, Len(text))

\* Mutant: the right part gets the extra character when keepChars is odd.
truncateText_rightGetsExtra(text, maxWidth) ==
    LET ellipsisWidth == Len(ellipsis) * MONO_CHAR_WIDTH
    IN IF Len(text) * MONO_CHAR_WIDTH <= maxWidth THEN text
       ELSE LET availableWidth == maxWidth - ellipsisWidth
                keepChars == availableWidth \div MONO_CHAR_WIDTH
            IN IF keepChars <= 1 THEN ellipsis
               ELSE LET leftChars == keepChars \div 2
                        rightChars == keepChars - leftChars
                    IN substring(text, 0, leftChars) \o ellipsis
                           \o substring(text, Len(text) - rightChars, Len(text))

truncateText(text, maxWidth) ==
    LET ellipsisWidth == Len(ellipsis) * MONO_CHAR_WIDTH
    IN IF Len(text) * MONO_CHAR_WIDTH <= maxWidth THEN text
       ELSE LET availableWidth == maxWidth - ellipsisWidth
                \* Math.floor(availableWidth / MONO_CHAR_WIDTH)
                keepChars == availableWidth \div MONO_CHAR_WIDTH
            IN IF keepChars <= 1 THEN ellipsis
               ELSE LET \* Math.ceil(keepChars / 2)
                        leftChars == (keepChars + 1) \div 2
                        rightChars == keepChars - leftChars
                    IN substring(text, 0, leftChars) \o ellipsis
                           \o substring(text, Len(text) - rightChars, Len(text))

(***************************************************************************)
(* The truncateText harness: a text and a width are drawn, the function is *)
(* applied, and applied again to its own result.                           *)
(***************************************************************************)
TruncAlphabet == {"a", "b", "."}

\* Widths from 0 to two characters more than the longest text, in steps of
\* 1.2 units (a sixth of a character), so that exact multiples of the
\* character width and widths below the ellipsis width both occur.
TruncWidths == {12 * k : k \in 0..(6 * (MaxLen + 2))}

NoText == <<"<", "n", "o", "n", "e", ">">>

IdleMain ==
    /\ argv = [kind |-> "none"]
    /\ hier = [kind |-> "none"]
    /\ root = [kind |-> "none"]
    /\ calc = <<>>
    /\ layout = <<>>
    /\ canvas = [kind |-> "none"]
    /\ scene = [kind |-> "none"]
    /\ stdout = <<>>
    /\ stderr = <<>>
    /\ exitCode = -1

IdleTrunc == trunc = [text |-> <<>>, maxWidth |-> 0, once |-> NoText, twice |-> NoText]
IdleOutp == outp = [kind |-> "none"]
IdleBuild == build = [kind |-> "none"]

InitTrunc ==
    /\ pc = "trunc"
    /\ \E t \in SeqsUpTo(TruncAlphabet, MaxLen), w \in TruncWidths :
          trunc = [text |-> t, maxWidth |-> w, once |-> NoText, twice |-> NoText]
    /\ IdleOutp /\ IdleBuild /\ IdleMain

Truncate ==
    /\ pc = "trunc"
    /\ trunc' = [trunc EXCEPT !.once = truncateText(trunc.text, trunc.maxWidth)]
    /\ pc' = "truncated"
    /\ UNCHANGED <<outp, build, mainVars>>

TruncateAgain ==
    /\ pc = "truncated"
    /\ trunc' = [trunc EXCEPT !.twice = truncateText(trunc.once, trunc.maxWidth)]
    /\ pc' = "retruncated"
    /\ UNCHANGED <<outp, build, mainVars>>

NextTrunc == Truncate \/ TruncateAgain

SpecTrunc == InitTrunc /\ [][NextTrunc]_vars

\* C5: truncating an already truncated text to the same width changes nothing.
C5_TruncationIdempotent ==
    pc = "retruncated" => trunc.twice = trunc.once

\* A text too long for its width was cut to both ends around the ellipsis and
\* truncated a second time.
C5_Witness ==
    /\ pc = "retruncated"
    /\ trunc.once # trunc.text
    /\ Len(trunc.once) > Len(ellipsis)
    /\ trunc.twice = trunc.once

\* A width too small to hold the ellipsis: the result is the bare ellipsis.
C5_WitnessNarrow ==
    /\ pc = "retruncated"
    /\ trunc.maxWidth < Len(ellipsis) * MONO_CHAR_WIDTH
    /\ trunc.once = ellipsis
    /\ trunc.twice = ellipsis

(***************************************************************************)
(* Optional payload fields.  A field is absent (undefined), a string, or a *)
(* truthy value of another type (a number).                                *)
(***************************************************************************)
Undef == [kind |-> "undefined", s |-> <<>>]
Str(s) == [kind |-> "string", s |-> s]
NotAString == [kind |-> "number", s |-> <<>>]

\* JavaScript truthiness: undefined and the empty string are falsy.
Truthy(f) == f.kind = "number" \/ (f.kind = "string" /\ f.s # <<>>)

(***************************************************************************)
(* The output annotation of a leaf (lines 411-593).                        *)
(***************************************************************************)
\* The index after the longest run, from position i, of characters other
\* than stop: what a greedy negated character class consumes.
RECURSIVE runEnd(_, _, _)
runEnd(s, i, stop) ==
    IF i <= Len(s) /\ s[i] # stop THEN runEnd(s, i + 1, stop) ELSE i

\* Mutant: the type group may be empty, as with /^([^(]*)\(([^)]*)\)$/.
outputMatch_emptyType(s) ==
    LET typeEnd == runEnd(s, 1, "(")
        valueEnd == runEnd(s, typeEnd + 1, ")")
    IN IF typeEnd <= Len(s) /\ valueEnd = Len(s)
       THEN [matched |-> TRUE, type |-> SubSeq(s, 1, typeEnd - 1),
             value |-> SubSeq(s, typeEnd + 1, valueEnd - 1)]
       ELSE [matched |-> FALSE, type |-> <<>>, value |-> <<>>]

\* nodeData.output.match(/^([^(]+)\(([^)]*)\)$/): the type group takes k >= 1
\* characters other than "(", then "(", the value group takes j >= 0
\* characters other than ")", then ")" and the end of the string.  The
\* engine tries the longest groups first.
outputMatch(s) ==
    LET typeMax == runEnd(s, 1, "(") - 1
        ValueMax(k) == runEnd(s, k + 2, ")") - (k + 2)
        Fits(k, j) == /\ k + 1 <= Len(s) /\ s[k + 1] = "("
                      /\ k + 2 + j <= Len(s) /\ s[k + 2 + j] = ")"
                      /\ k + 2 + j = Len(s)
        found == {kj \in (1..typeMax) \X (0..Len(s)) :
                     kj[2] <= ValueMax(kj[1]) /\ Fits(kj[1], kj[2])}
    IN IF found = {}
       THEN [matched |-> FALSE, type |-> <<>>, value |-> <<>>]
       ELSE LET kj == CHOOSE c \in found :
                         \A d \in found : d[1] < c[1] \/ (d[1] = c[1] /\ d[2] <= c[2])
            IN [matched |-> TRUE,
                type |-> SubSeq(s, 1, kj[1]),
                value |-> SubSeq(s, kj[1] + 2, kj[1] + 1 + kj[2])]

NoOutputBox ==
    [drawn |-> FALSE, threw |-> FALSE, y |-> 0, structured |-> FALSE,
     typeText |-> <<>>, valueText |-> <<>>, valueShown |-> <<>>,
     plainText |-> <<>>, glow |-> FALSE, totalWidth |-> 0]

\* Mutant: the glow of the output box follows the size of the highlight set
\* (as the input box does) and not the leaf's own membership.
outputGlow_global(isHighlighted, anyHighlighted) == anyHighlighted

\* if (isHighlighted) { outputBgRect.style('filter', ...) }  (lines 479-492)
outputGlow(isHighlighted, anyHighlighted) == isHighlighted

\* The output box of one leaf.  lastElementBottomY is the bottom of the leaf
\* rectangle, the last example box or the parser box, in the node's frame.
\* totalWidth is in tenths of a unit.
drawOutput(output, hasExamples, isHighlighted, anyHighlighted, lastElementBottomY) ==
    IF ~Truthy(output) THEN NoOutputBox
    ELSE IF output.kind # "string"
    THEN [NoOutputBox EXCEPT !.threw = TRUE]   \* TypeError: output.match is not a function
    ELSE LET adjustedOutputSpace == LEAF_TO_OUTPUT_SPACE * 6
             outputBoxY == IF hasExamples
                           THEN lastElementBottomY + adjustedOutputSpace + 8
                           ELSE lastElementBottomY + adjustedOutputSpace
             match == outputMatch(output.s)
             spacing == 2 * 10
             typeBoxWidth == Len(match.type) * MONO_CHAR_WIDTH
             valueBoxWidth == Min(Len(match.value) * MONO_CHAR_WIDTH, MAX_VALUE_WIDTH * 10)
         IN IF match.matched
            THEN [drawn |-> TRUE, threw |-> FALSE, y |-> outputBoxY, structured |-> TRUE,
                  typeText |-> match.type, valueText |-> match.value,
                  valueShown |-> truncateText(match.value, (MAX_VALUE_WIDTH - 2) * 10),
                  plainText |-> <<>>,
                  glow |-> outputGlow(isHighlighted, anyHighlighted),
                  totalWidth |-> typeBoxWidth + spacing + MONO_CHAR_WIDTH + spacing
                                    + valueBoxWidth + spacing + MONO_CHAR_WIDTH + spacing]
            ELSE [drawn |-> TRUE, threw |-> FALSE, y |-> outputBoxY, structured |-> FALSE,
                  typeText |-> <<>>, valueText |-> <<>>, valueShown |-> <<>>,
                  plainText |-> output.s, glow |-> FALSE, totalWidth |-> 0]

(***************************************************************************)
(* The output harness: an output string is drawn and handed to the         *)
(* renderer's output step.                                                 *)
(***************************************************************************)
OutAlphabet == {"i", "4", "(", ")"}

InitOutput ==
    /\ pc = "output"
    /\ \E s \in SeqsUpTo(OutAlphabet, MaxOutLen), h \in BOOLEAN :
          outp = [kind |-> "given", output |-> s, isHighlighted |-> h, box |-> NoOutputBox]
    /\ IdleTrunc /\ IdleBuild /\ IdleMain

RenderOutput ==
    /\ pc = "output"
    /\ outp' = [outp EXCEPT !.kind = "rendered",
                            !.box = drawOutput(Str(outp.output), FALSE, outp.isHighlighted,
                                               outp.isHighlighted, MAIN_SHAPE_HEIGHT \div 2)]
    /\ pc' = "rendered"
    /\ UNCHANGED <<trunc, build, mainVars>>

NextOutput == RenderOutput

SpecOutput == InitOutput /\ [][NextOutput]_vars

\* The form type(value): a non-empty type without "(", then "(", a value
\* without ")", and the closing ")" as the last character.
FirstParen(s) == CHOOSE p \in 1..Len(s) : s[p] = "(" /\ \A i \in 1..(p - 1) : s[i] # "("

HasTypeValueForm(s) ==
    /\ \E p \in 1..Len(s) : s[p] = "("
    /\ FirstParen(s) >= 2
    /\ s[Len(s)] = ")"
    /\ \A i \in (FirstParen(s) + 1)..(Len(s) - 1) : s[i] # ")"

\* C7: an output string is drawn as a type segment and a value segment
\* exactly when it has the form type(value), split at the first "(" and the
\* final ")"; every other (non-empty) output string is drawn whole as one
\* plain label.
C7_OutputParsing ==
    (pc = "rendered" /\ outp.output # <<>>) =>
        /\ outp.box.drawn
        /\ outp.box.structured <=> HasTypeValueForm(outp.output)
        /\ outp.box.structured =>
              /\ outp.box.typeText = SubSeq(outp.output, 1, FirstParen(outp.output) - 1)
              /\ outp.box.valueText =
                     SubSeq(outp.output, FirstParen(outp.output) + 1, Len(outp.output) - 1)
              /\ outp.box.plainText = <<>>
        /\ ~outp.box.structured =>
              /\ outp.box.plainText = outp.output
              /\ outp.box.typeText = <<>> /\ outp.box.valueText = <<>>

\* "i(42)"-shaped: a structured output with a non-empty value.
C7_Witness ==
    /\ pc = "rendered"
    /\ outp.output = <<"i", "i", "(", "4", ")">>
    /\ outp.box.structured
    /\ outp.box.typeText = <<"i", "i">>
    /\ outp.box.valueText = <<"4">>

\* A string with parentheses that is not of the form and is drawn whole.
C7_WitnessPlain ==
    /\ pc = "rendered"
    /\ outp.output = <<"(", "4", ")">>
    /\ ~outp.box.structured
    /\ outp.box.plainText = outp.output

(***************************************************************************)
(* buildHierarchy (lines 94-119).                                          *)
(*                                                                         *)
(* A uid is a positive integer; undefined stands for an absent source or   *)
(* target.  A node is a record with a uid field, an edge is                *)
(* [source, target, label] with an optional label.                         *)
(***************************************************************************)
undefined == 0

NoEdgeInfo ==
    [has |-> FALSE, label |-> <<>>, is_true |-> FALSE, is_false |-> FALSE, is_custom |-> FALSE]

\* const label = edge.label || ''; child._edge_info = {...}  (lines 104-110)
edgeInfo(edge) ==
    LET label == IF Truthy(edge.label) THEN edge.label.s ELSE <<>>
    IN [has |-> TRUE,
        label |-> label,
        is_true |-> toLowerCase(label) = <<"t", "r", "u", "e">>,
        is_false |-> toLowerCase(label) = <<"f", "a", "l", "s", "e">>,
        is_custom |-> /\ toLowerCase(label) # <<"t", "r", "u", "e">>
                      /\ toLowerCase(label) # <<"f", "a", "l", "s", "e">>]

\* Mutant: the child replaces the parent's children instead of being pushed.
edgeStep_replacesChildren(acc, edge) ==
    LET marked == IF edge.target # undefined
                  THEN acc.childrenUids \cup {edge.target}
                  ELSE acc.childrenUids
    IN IF edge.source \in DOMAIN acc.children /\ edge.target \in DOMAIN acc.children
       THEN [childrenUids |-> marked,
             children |-> [acc.children EXCEPT ![edge.source] = <<edge.target>>],
             edge_info |-> [acc.edge_info EXCEPT ![edge.target] = edgeInfo(edge)]]
       ELSE [acc EXCEPT !.childrenUids = marked]

\* The body of edges.forEach (lines 98-113): the target is recorded as having
\* an incoming edge, and the child is attached when both ends resolve.
edgeStep(acc, edge) ==
    LET marked == IF edge.target # undefined
                  THEN acc.childrenUids \cup {edge.target}
                  ELSE acc.childrenUids
        parentFound == edge.source \in DOMAIN acc.children
        childFound == edge.target \in DOMAIN acc.children
    IN IF parentFound /\ childFound
       THEN [childrenUids |-> marked,
             children |-> [acc.children EXCEPT ![edge.source] = Append(@, edge.target)],
             edge_info |-> [acc.edge_info EXCEPT ![edge.target] = edgeInfo(edge)]]
       ELSE [acc EXCEPT !.childrenUids = marked]

RECURSIVE forEachEdge(_, _, _)
forEachEdge(edges, i, acc) ==
    IF i > Len(edges) THEN acc ELSE forEachEdge(edges, i + 1, edgeStep(acc, edges[i]))

NoHierarchy(diag) ==
    [kind |-> "null", diag |-> diag, rootUid |-> undefined, children |-> <<>>, edge_info |-> <<>>]

\* Mutant: the first of several roots is returned.
pickRoot_firstOfMany(roots, acc) ==
    IF Len(roots) >= 1
    THEN [kind |-> "node", diag |-> "none", rootUid |-> roots[1],
          children |-> acc.children, edge_info |-> acc.edge_info]
    ELSE NoHierarchy("no_root")

\* Lines 115-118: the single root, or null with a diagnostic.
pickRoot(roots, acc) ==
    IF Len(roots) = 1
    THEN [kind |-> "node", diag |-> "none", rootUid |-> roots[1],
          children |-> acc.children, edge_info |-> acc.edge_info]
    ELSE IF Len(roots) = 0 THEN NoHierarchy("no_root")
    ELSE NoHierarchy("multiple_roots")

RECURSIVE uidsWithout(_, _, _)
\* nodes.filter(n => !childrenUids.has(n.uid)), as the sequence of the uids
uidsWithout(nodes, i, childrenUids) ==
    IF i > Len(nodes) THEN <<>>
    ELSE (IF nodes[i].uid \in childrenUids THEN <<>> ELSE <<nodes[i].uid>>)
             \o uidsWithout(nodes, i + 1, childrenUids)

buildHierarchy(nodes, edges) ==
    IF Len(nodes) = 0 THEN NoHierarchy("no_nodes")
    ELSE LET uids == {nodes[i].uid : i \in 1..Len(nodes)}
             acc0 == [childrenUids |-> {},
                      children |-> [u \in uids |-> <<>>],
                      edge_info |-> [u \in uids |-> NoEdgeInfo]]
             acc == forEachEdge(edges, 1, acc0)
         IN pickRoot(uidsWithout(nodes, 1, acc.childrenUids), acc)

\* The failure kinds of the specification's taxonomy, by diagnostic.
errorKind(diag) ==
    CASE diag = "no_nodes" -> "EmptyInputError"
      [] diag = "no_root" -> "MultipleOrNoRootError"
      [] diag = "multiple_roots" -> "MultipleOrNoRootError"
      [] OTHER -> "none"

(***************************************************************************)
(* The buildHierarchy harness: lines 139-141 of the script on a drawn node *)
(* list and edge list, and once more with an edge added that references an *)
(* unknown uid.  The nodes are 1..n; n + 1 is a uid no node has.           *)
(***************************************************************************)
BuildNodes(n) == [i \in 1..n |-> [uid |-> i, leaf |-> FALSE]]

BuildEdges(n) == [source : 1..(n + 1), target : 1..(n + 1), label : {Undef}]

\* Edges of which the source, the target or both resolve to no node.
DanglingEdges(n) ==
    {e \in [source : 1..(n + 1), target : 0..(n + 1), label : {Undef}] :
        e.source = n + 1 \/ e.target = n + 1 \/ e.target = undefined}

InitBuild ==
    /\ pc = "build"
    /\ \E n \in 0..MaxBuildNodes :
         \E es \in SeqsUpTo(BuildEdges(n), MaxBuildEdges) :
            build = [kind |-> "given", nodes |-> BuildNodes(n), edges |-> es,
                     extra |-> <<>>, base |-> NoHierarchy("none"),
                     extended |-> NoHierarchy("none")]
    /\ exitCode = -1 /\ stderr = <<>>
    /\ argv = [kind |-> "none"] /\ hier = [kind |-> "none"] /\ root = [kind |-> "none"]
    /\ calc = <<>> /\ layout = <<>> /\ canvas = [kind |-> "none"]
    /\ scene = [kind |-> "none"] /\ stdout = <<>>
    /\ IdleTrunc /\ IdleOutp

\* const hierarchicalData = buildHierarchy(nodes, edges);
\* if (!hierarchicalData) { process.exit(1); }
BuildBase ==
    /\ pc = "build"
    /\ LET h == buildHierarchy(build.nodes, build.edges)
       IN /\ build' = [build EXCEPT !.base = h]
          /\ stderr' = IF h.kind = "null" THEN Append(stderr, h.diag) ELSE stderr
          /\ exitCode' = IF h.kind = "null" THEN 1 ELSE exitCode
    /\ pc' = "built"
    /\ UNCHANGED <<trunc, outp, argv, hier, root, calc, layout, canvas, scene, stdout>>

\* The same node list with one more edge, which references an unknown uid.
BuildExtended ==
    /\ pc = "built"
    /\ \E e \in DanglingEdges(Len(build.nodes)) :
          build' = [build EXCEPT !.extra = <<e>>,
                                 !.extended = buildHierarchy(build.nodes, Append(build.edges, e))]
    /\ pc' = "extended"
    /\ UNCHANGED <<trunc, outp, mainVars>>

NextBuild == BuildBase \/ BuildExtended

SpecBuild == InitBuild /\ [][NextBuild]_vars

\* The uids that are the target of no edge of the list.
NoIncomingEdge(nodes, edges) ==
    {nodes[i].uid : i \in 1..Len(nodes)} \ {edges[j].target : j \in 1..Len(edges)}

\* C1: buildHierarchy returns the root exactly when the node list is not
\* empty and exactly one node has no incoming edge; otherwise it fails, the
\* script exits with a failure, and the failure is EmptyInputError for an empty
\* node list and MultipleOrNoRootError for zero or several such nodes.
C1_RootOrFailure ==
    pc = "built" =>
        LET free == NoIncomingEdge(build.nodes, build.edges)
        IN /\ build.base.kind = "node" <=>
                  (Len(build.nodes) > 0 /\ Cardinality(free) = 1)
           /\ build.base.kind = "node" => (build.base.rootUid \in free /\ exitCode = -1)
           /\ build.base.kind # "node" =>
                  /\ build.base.kind = "null"
                  /\ exitCode = 1
                  /\ errorKind(build.base.diag) =
                        (IF Len(build.nodes) = 0 THEN "EmptyInputError"
                         ELSE "MultipleOrNoRootError")

\* Two nodes without an edge between them: two disjoint roots.
C1_Witness ==
    /\ pc = "built"
    /\ Len(build.nodes) = 2
    /\ build.edges = <<>>
    /\ build.base.kind = "null"
    /\ build.base.diag = "multiple_roots"
    /\ exitCode = 1

\* The uids of the hierarchy under u, u first, through the children lists
\* (at most fuel levels deep).
RECURSIVE hierarchyUids(_, _, _)
RECURSIVE hierarchyUidsOfAll(_, _, _, _)
hierarchyUids(h, u, fuel) ==
    IF fuel = 0 THEN <<u>>
    ELSE <<u>> \o hierarchyUidsOfAll(h, h.children[u], 1, fuel - 1)
hierarchyUidsOfAll(h, kids, i, fuel) ==
    IF i > Len(kids) THEN <<>>
    ELSE hierarchyUids(h, kids[i], fuel) \o hierarchyUidsOfAll(h, kids, i + 1, fuel)

\* The uids reachable from the set S along the edges, in at most k steps.
RECURSIVE ReachableFrom(_, _, _)
ReachableFrom(S, edges, k) ==
    IF k = 0 THEN S
    ELSE ReachableFrom(S \cup {edges[j].target : j \in {i \in 1..Len(edges) : edges[i].source \in S}},
                       edges, k - 1)

\* N nodes with distinct uids, N - 1 edges between nodes of the list, and a
\* node from which the edges lead to every node.
IsProperTree(nodes, edges) ==
    LET uids == {nodes[i].uid : i \in 1..Len(nodes)}
    IN /\ Len(nodes) >= 1
       /\ Cardinality(uids) = Len(nodes)
       /\ Len(edges) = Len(nodes) - 1
       /\ \A j \in 1..Len(edges) : edges[j].source \in uids /\ edges[j].target \in uids
       /\ \E r \in uids : ReachableFrom({r}, edges, Len(nodes)) = uids

\* C2: on a proper tree of N nodes buildHierarchy returns a root whose
\* hierarchy holds exactly the N nodes, each once.
C2_RoundTripStructure ==
    (pc = "built" /\ IsProperTree(build.nodes, build.edges)) =>
        /\ build.base.kind = "node"
        /\ LET d == hierarchyUids(build.base, build.base.rootUid, Len(build.nodes))
           IN /\ Len(d) = Len(build.nodes)
              /\ {d[i] : i \in 1..Len(d)} = {build.nodes[i].uid : i \in 1..Len(build.nodes)}

\* A root with two children: three nodes, two edges.
C2_Witness ==
    /\ pc = "built"
    /\ Len(build.nodes) = 3
    /\ IsProperTree(build.nodes, build.edges)
    /\ build.base.kind = "node"
    /\ Len(build.base.children[build.base.rootUid]) = 2

\* C3: an edge that references an unknown uid changes nothing: where
\* buildHierarchy succeeded without it, it succeeds with it, with the same
\* root and the same children lists.
C3_UnknownEdgesIgnored ==
    (pc = "extended" /\ build.base.kind = "node") =>
        /\ build.extended.kind = "node"
        /\ build.extended.rootUid = build.base.rootUid
        /\ build.extended.children = build.base.children

(***************************************************************************)
(* The payloads handed to the main script.                                 *)
(*                                                                         *)
(* A payload is drawn from a parent vector p over the uids 1..n (p[i] < i  *)
(* is the source of the edge into i, 0 for none), a variant v that rotates *)
(* the edge labels, branch names and leaf profiles over the nodes, a       *)
(* highlight set, an optional input text and a fault.  A node with         *)
(* children is a branch, a node without is a leaf.                         *)
(***************************************************************************)
Letters == <<"a", "b", "c", "d", "e", "f", "g", "h", "i", "j", "k", "l", "m",
             "n", "o", "p", "q", "r", "s", "t", "u", "v", "w", "x", "y", "z">>

\* A text of n letters.
Text(n) == [i \in 1..n |-> Letters[((i - 1) % Len(Letters)) + 1]]

EdgeLabels ==
    << Str(<<"t", "r", "u", "e">>),
       Str(<<"F", "a", "l", "s", "e">>),
       Str(<<"y", "e", "s">>),
       Str(<<"T", "R", "U", "E">>),
       Undef,
       Str(<<"f", "a", "l", "s", "e">>) >>

\* Names of 10, 30 and 60 letters: labelWidth below, between and above the
\* base width and its double.
BranchNames == << Str(Text(10)), Str(Text(30)), Str(Text(60)) >>

LeafProfiles ==
    << [typ |-> Str(<<"f", "l", "o", "a", "t">>), parser |-> Undef, examples |-> <<>>,
        output |-> Str(<<"f", "l", "o", "a", "t", "(", "3", ".", "1", "4", ")">>)],
       [typ |-> Str(<<"s", "t", "r">>), parser |-> Str(Text(8)),
        examples |-> <<Text(4)>>, output |-> Undef],
       [typ |-> Str(Text(30)), parser |-> Str(Text(70)),
        examples |-> <<Text(3), Text(40)>>,
        output |-> Str(<<"n", "o", "-", "p", "a", "r", "e", "n", "s">>)],
       [typ |-> Undef, parser |-> Undef,
        examples |-> <<Text(1), Text(2), Text(3), Text(4), Text(5), Text(6)>>,
        output |-> Str(<<"i", "n", "t", "(", "4", "2", ")">>)],
       [typ |-> Str(Text(60)), parser |-> Str(Text(5)), examples |-> <<>>,
        output |-> Str(<<"s", "(">> \o Text(50) \o <<")">>)],
       [typ |-> Str(<<"i", "n", "t">>), parser |-> Undef, examples |-> <<>>,
        output |-> Undef] >>

Variants == 0..(Len(LeafProfiles) - 1)

Pick(seq, i, v) == seq[((i + v) % Len(seq)) + 1]

Faults == {"garbage", "no_branches", "no_leaves", "no_edges", "no_highlights",
           "no_name", "bad_output", "edge_into_root"}

\* The parent vectors over 1..n: forests whose edges lead from a smaller uid.
ParentVectors(n) == {p \in [1..n -> 0..n] : \A i \in 1..n : p[i] < i}

IsTree(p) == \A i \in DOMAIN p : i >= 2 => p[i] >= 1

HasChild(p, i) == \E j \in DOMAIN p : p[j] = i

\* The uids among 1..n that satisfy Keep, in increasing order.
RECURSIVE UidsWhere(_, _, _)
UidsWhere(Keep(_), i, n) ==
    IF i > n THEN <<>>
    ELSE (IF Keep(i) THEN <<i>> ELSE <<>>) \o UidsWhere(Keep, i + 1, n)

\* The nodes on the way from the root to u, u included.
RECURSIVE PathTo(_, _)
PathTo(p, u) == IF u = 0 THEN {} ELSE {u} \cup PathTo(p, p[u])

HighlightChoices(p) ==
    {{}} \cup {PathTo(p, u) : u \in DOMAIN p} \cup {{u} : u \in DOMAIN p}

InputTexts == {Undef, Str(<<"3", ".", "1", "4">>)}

Payload(p, v, hl, input, fault) ==
    LET n == Len(p)
        IsBranchUid(i) == HasChild(p, i)
        IsLeafUid(i) == ~HasChild(p, i)
        HasEdge(i) == p[i] # 0
        branchUids == UidsWhere(IsBranchUid, 1, n)
        leafUids == UidsWhere(IsLeafUid, 1, n)
        targets == UidsWhere(HasEdge, 1, n)
        \* the edges by increasing target for an even variant, by decreasing
        \* target for an odd one
        listed == [k \in 1..Len(targets) |->
                     IF v % 2 = 0 THEN targets[k] ELSE targets[Len(targets) + 1 - k]]
        treeEdges == [k \in 1..Len(listed) |->
                        [source |-> p[listed[k]], target |-> listed[k],
                         label |-> Pick(EdgeLabels, listed[k], v)]]
    IN [kind |-> IF fault = "garbage" THEN "garbage" ELSE "object",
        has |-> [branches |-> fault # "no_branches", leaves |-> fault # "no_leaves",
                 edges |-> fault # "no_edges", highlights |-> fault # "no_highlights"],
        branches |-> [k \in 1..Len(branchUids) |->
                        [uid |-> branchUids[k],
                         name |-> IF fault = "no_name" /\ k = 1 THEN Undef
                                  ELSE Pick(BranchNames, branchUids[k], v)]],
        leaves |-> [k \in 1..Len(leafUids) |->
                        LET prof == Pick(LeafProfiles, leafUids[k], v)
                        IN [uid |-> leafUids[k], typ |-> prof.typ, parser |-> prof.parser,
                            examples |-> prof.examples,
                            output |-> IF fault = "bad_output" /\ k = 1 THEN NotAString
                                       ELSE prof.output]],
        edges |-> IF fault = "edge_into_root"
                  THEN Append(treeEdges, [source |-> n + 1, target |-> 1, label |-> Undef])
                  ELSE treeEdges,
        highlights |-> hl,
        input |-> input]

Init ==
    /\ pc = "start"
    /\ \E n \in 0..MaxNodes :
         \E p \in ParentVectors(n) :
            \/ /\ IsTree(p)
               /\ \E v \in Variants, hl \in HighlightChoices(p), input \in InputTexts :
                     argv = Payload(p, v, hl, input, "none")
            \/ \E fault \in Faults \cup {"none"} :
                     argv = Payload(p, 0, {}, Undef, fault)
    /\ hier = [kind |-> "none"]
    /\ root = [kind |-> "none"]
    /\ calc = <<>>
    /\ layout = <<>>
    /\ canvas = [kind |-> "none"]
    /\ scene = [kind |-> "none"]
    /\ stdout = <<>>
    /\ stderr = <<>>
    /\ exitCode = -1
    /\ IdleTrunc /\ IdleOutp /\ IdleBuild

(***************************************************************************)
(* The main script (lines 122-602).                                        *)
(***************************************************************************)
\* process.exit(1) after a diagnostic on the error stream: the explicit exits
\* of lines 128-131 and 141 and the catch block of lines 599-602.  Nothing
\* is written to standard output on this path.
Fail(diag) ==
    /\ pc' = "exit"
    /\ stderr' = Append(stderr, diag)
    /\ exitCode' = 1
    /\ UNCHANGED stdout

\* Lines 123-131: JSON.parse and the check of the required fields.
ParsePayload ==
    /\ pc = "start"
    /\ IF argv.kind # "object"
       THEN Fail("Error during SVG generation")
       ELSE IF ~(argv.has.branches /\ argv.has.leaves /\ argv.has.edges /\ argv.has.highlights)
       THEN Fail("Invalid JSON input")
       ELSE /\ pc' = "parsed"
            /\ UNCHANGED <<stdout, stderr, exitCode>>
    /\ UNCHANGED <<harnessVars, argv, hier, root, calc, layout, canvas, scene>>

\* Lines 133-136: the branches, then the leaves, each tagged with leaf.
nodesOf(payload) ==
    [k \in 1..Len(payload.branches) |->
        [uid |-> payload.branches[k].uid, label |-> payload.branches[k].name, leaf |-> FALSE,
         typ |-> Undef, parser |-> Undef, examples |-> <<>>, output |-> Undef]]
    \o
    [k \in 1..Len(payload.leaves) |->
        [uid |-> payload.leaves[k].uid, label |-> Undef, leaf |-> TRUE,
         typ |-> payload.leaves[k].typ, parser |-> payload.leaves[k].parser,
         examples |-> payload.leaves[k].examples, output |-> payload.leaves[k].output]]

\* nodeMap.get(uid): the node's data.
dataOf(payload, uid) ==
    LET nodes == nodesOf(payload)
    IN nodes[CHOOSE k \in 1..Len(nodes) : nodes[k].uid = uid]

\* Lines 133-141: the node list, buildHierarchy and the null check.
BuildTree ==
    /\ pc = "parsed"
    /\ LET h == buildHierarchy(nodesOf(argv), argv.edges)
       IN /\ hier' = h
          /\ IF h.kind = "null"
             THEN Fail(h.diag)
             ELSE /\ pc' = "built"
                  /\ UNCHANGED <<stdout, stderr, exitCode>>
    /\ UNCHANGED <<harnessVars, argv, root, calc, layout, canvas, scene>>

(***************************************************************************)
(* d3.hierarchy and root.sort (lines 154-156).  Every node of a payload    *)
(* has at most one attached incoming edge, so a uid names one node of the  *)
(* hierarchy.                                                              *)
(***************************************************************************)
\* (a.data._edge_info?.is_true === false ? 0 : 1)
sortKey(info) == IF info.has /\ info.is_true = FALSE THEN 0 ELSE 1

\* Mutant: the true-labelled children are placed first.
sortChildren_trueFirst(kids, edge_info) ==
    LET IsZero(c) == sortKey(edge_info[c]) = 0
        IsOne(c) == sortKey(edge_info[c]) = 1
    IN SelectSeq(kids, IsOne) \o SelectSeq(kids, IsZero)

\* children.sort(compare) with the stable Array.prototype.sort: the children
\* of key 0 in their order, then those of key 1 in their order.
sortChildren(kids, edge_info) ==
    LET IsZero(c) == sortKey(edge_info[c]) = 0
        IsOne(c) == sortKey(edge_info[c]) = 1
    IN SelectSeq(kids, IsZero) \o SelectSeq(kids, IsOne)

RECURSIVE depthOf(_, _)
depthOf(parent, u) == IF parent[u] = 0 THEN 0 ELSE 1 + depthOf(parent, parent[u])

RECURSIVE concatKids(_, _, _)
concatKids(kids, level, i) ==
    IF i > Len(level) THEN <<>> ELSE kids[level[i]] \o concatKids(kids, level, i + 1)

\* The nodes in the order of root.each and root.descendants(): level by
\* level, each level from left to right.
RECURSIVE breadthFirst(_, _)
breadthFirst(kids, level) ==
    IF level = <<>> THEN <<>> ELSE level \o breadthFirst(kids, concatKids(kids, level, 1))

hierarchy(h) ==
    LET kids == [u \in DOMAIN h.children |-> sortChildren(h.children[u], h.edge_info)]
        order == breadthFirst(kids, <<h.rootUid>>)
        members == {order[i] : i \in 1..Len(order)}
        parent == [u \in members |->
                     IF u = h.rootUid THEN 0
                     ELSE CHOOSE q \in members : \E i \in 1..Len(kids[q]) : kids[q][i] = u]
    IN [kind |-> "hierarchy", rootUid |-> h.rootUid,
        kids |-> [u \in members |-> kids[u]],
        parent |-> parent,
        depth |-> [u \in members |-> depthOf(parent, u)],
        descendants |-> order]

(***************************************************************************)
(* Node size calculation (lines 159-199).  Widths in tenths of a unit,     *)
(* heights in units.                                                       *)
(***************************************************************************)
\* Mutant: a branch without a name is sized as if its label were empty.
sizeThrows_never(data) == FALSE

\* d.data.label.length on a branch whose name is absent raises a TypeError.
sizeThrows(data) == ~data.leaf /\ data.label.kind # "string"

\* Mutant: the width is not capped at twice the base width.
nodeWidth_uncapped(data) ==
    IF ~data.leaf
    THEN Max(MAIN_SHAPE_WIDTH * 10, Len(data.label.s) * MONO_CHAR_WIDTH + 20 * 10)
    ELSE Max(MAIN_SHAPE_WIDTH * 10,
             Max(Len(data.typ.s) * MONO_CHAR_WIDTH + 20 * 10,
                 IF Truthy(data.parser)
                 THEN Len(data.parser.s) * MONO_CHAR_WIDTH_PARSER + 16 * 10 ELSE 0))

nodeWidth(data) ==
    IF ~data.leaf
    THEN LET labelWidth == Len(data.label.s) * MONO_CHAR_WIDTH + 20 * 10
         IN Max(MAIN_SHAPE_WIDTH * 10, Min(labelWidth, MAIN_SHAPE_WIDTH * 10 * 2))
    ELSE LET typWidth == Len(data.typ.s) * MONO_CHAR_WIDTH + 20 * 10
             parserWidth == IF Truthy(data.parser)
                            THEN Len(data.parser.s) * MONO_CHAR_WIDTH_PARSER + 16 * 10
                            ELSE 0
             maxContentWidth == Max(typWidth, parserWidth)
         IN Max(MAIN_SHAPE_WIDTH * 10, Min(maxContentWidth, MAIN_SHAPE_WIDTH * 10 * 2))

nodeHeight(data) ==
    IF ~data.leaf THEN MAIN_SHAPE_HEIGHT
    ELSE MAIN_SHAPE_HEIGHT
         + (IF Truthy(data.parser) THEN LEAF_TO_PARSER_SPACE + PARSER_BOX_HEIGHT ELSE 0)
         + (IF Len(data.examples) > 0 THEN Len(data.examples) * INPUT_BOX_HEIGHT ELSE 0)
         + (IF Truthy(data.output) THEN LEAF_TO_OUTPUT_SPACE + OUTPUT_BOX_HEIGHT ELSE 0)

\* Lines 154-199: the hierarchy, the sort and the size of every node.
SortAndSize ==
    /\ pc = "built"
    /\ LET r == hierarchy(hier)
           members == DOMAIN r.kids
       IN /\ root' = r
          /\ IF \E u \in members : sizeThrows(dataOf(argv, u))
             THEN /\ Fail("Error during SVG generation")
                  /\ UNCHANGED calc
             ELSE /\ calc' = [u \in members |->
                                [width |-> nodeWidth(dataOf(argv, u)),
                                 height |-> nodeHeight(dataOf(argv, u))]]
                  /\ pc' = "sized"
                  /\ UNCHANGED <<stdout, stderr, exitCode>>
    /\ UNCHANGED <<harnessVars, argv, hier, layout, canvas, scene>>

(***************************************************************************)
(* treeLayout = d3.tree().nodeSize([dx, dy]); treeLayout(root)             *)
(* (lines 201-202).  d3.tree is the Reingold-Tilford layout in the         *)
(* linear-time form of Buchheim et al.; its walk is modelled step by step  *)
(* on the fields of d3's TreeNode: z (prelim), m (mod), c (change),        *)
(* s (shift), t (thread), a (ancestor), A (default ancestor).              *)
(*                                                                         *)
(* The walk works in units of the node size; here one such unit is ZUnit   *)
(* steps, so that the midpoints and the distributed shifts are integers.   *)
(* Node 0 is the parent d3 gives the root.                                 *)
(***************************************************************************)
ZUnit == 2 * 2 * 2 * 2 * 3 * 5
null == 0 - 1

\* The tree as d3's treeRoot sees it: children, parent and sibling index i.
treeRoot(r) ==
    LET ids == DOMAIN r.kids \cup {0}
        kids == [u \in ids |-> IF u = 0 THEN <<r.rootUid>> ELSE r.kids[u]]
        par == [u \in ids |-> IF u = 0 THEN null ELSE r.parent[u]]
    IN [kids |-> kids, par |-> par,
        i |-> [u \in ids |->
                 IF u = 0 THEN 0
                 ELSE (CHOOSE k \in 1..Len(kids[par[u]]) : kids[par[u]][k] = u) - 1]]

newTreeNodes(T) ==
    LET ids == DOMAIN T.kids
    IN [z |-> [u \in ids |-> 0], m |-> [u \in ids |-> 0], c |-> [u \in ids |-> 0],
        s |-> [u \in ids |-> 0], t |-> [u \in ids |-> null], a |-> [u \in ids |-> u],
        A |-> [u \in ids |-> null]]

\* Mutant: cousins are kept as close as siblings.
separation_uniform(T, a, b) == ZUnit

\* defaultSeparation: a.parent === b.parent ? 1 : 2
separation(T, a, b) == IF T.par[a] = T.par[b] THEN ZUnit ELSE 2 * ZUnit

nextLeft(T, S, v) == IF Len(T.kids[v]) > 0 THEN T.kids[v][1] ELSE S.t[v]
nextRight(T, S, v) == IF Len(T.kids[v]) > 0 THEN T.kids[v][Len(T.kids[v])] ELSE S.t[v]

moveSubtree(T, S, wm, wp, shift) ==
    LET change == shift \div (T.i[wp] - T.i[wm])
        S1 == [S EXCEPT !.c[wp] = @ - change, !.s[wp] = @ + shift]
        S2 == [S1 EXCEPT !.c[wm] = @ + change]
    IN [S2 EXCEPT !.z[wp] = @ + shift, !.m[wp] = @ + shift]

\* executeShifts: from the last child to the first.
RECURSIVE executeShiftsFrom(_, _, _, _, _, _)
executeShiftsFrom(T, S, v, i, shift, change) ==
    IF i < 1 THEN S
    ELSE LET w == T.kids[v][i]
             S1 == [S EXCEPT !.z[w] = @ + shift, !.m[w] = @ + shift]
             change1 == change + S1.c[w]
         IN executeShiftsFrom(T, S1, v, i - 1, shift + S1.s[w] + change1, change1)

executeShifts(T, S, v) == executeShiftsFrom(T, S, v, Len(T.kids[v]), 0, 0)

nextAncestor(T, S, vim, v, ancestor) ==
    IF T.par[S.a[vim]] = T.par[v] THEN S.a[vim] ELSE ancestor

\* The while loop of apportion and the two threads set after it.  L holds the
\* loop's variables.
RECURSIVE apportionLoop(_, _)
apportionLoop(T, L) ==
    LET vim == nextRight(T, L.S, L.vim)
        vip == nextLeft(T, L.S, L.vip)
    IN IF vim # null /\ vip # null
       THEN LET vom == nextLeft(T, L.S, L.vom)
                vop == nextRight(T, L.S, L.vop)
                S1 == [L.S EXCEPT !.a[vop] = L.v]
                shift == S1.z[vim] + L.sim - S1.z[vip] - L.sip + separation(T, vim, vip)
                S2 == IF shift > 0
                      THEN moveSubtree(T, S1, nextAncestor(T, S1, vim, L.v, L.ancestor), L.v, shift)
                      ELSE S1
                sip == IF shift > 0 THEN L.sip + shift ELSE L.sip
                sop == IF shift > 0 THEN L.sop + shift ELSE L.sop
            IN apportionLoop(T, [L EXCEPT !.S = S2, !.vim = vim, !.vip = vip,
                                          !.vom = vom, !.vop = vop,
                                          !.sim = L.sim + S2.m[vim], !.sip = sip + S2.m[vip],
                                          !.som = L.som + S2.m[vom], !.sop = sop + S2.m[vop]])
       ELSE LET thread1 == vim # null /\ nextRight(T, L.S, L.vop) = null
                S3 == IF thread1
                      THEN [L.S EXCEPT !.t[L.vop] = vim, !.m[L.vop] = @ + L.sim - L.sop]
                      ELSE L.S
                thread2 == vip # null /\ nextLeft(T, S3, L.vom) = null
                S4 == IF thread2
                      THEN [S3 EXCEPT !.t[L.vom] = vip, !.m[L.vom] = @ + L.sip - L.som]
                      ELSE S3
            IN [S |-> S4, ancestor |-> IF thread2 THEN L.v ELSE L.ancestor]

apportion(T, S, v, w, ancestor) ==
    IF w = null THEN [S |-> S, ancestor |-> ancestor]
    ELSE LET vom == T.kids[T.par[v]][1]
         IN apportionLoop(T, [S |-> S, v |-> v, ancestor |-> ancestor,
                              vip |-> v, vop |-> v, vim |-> w, vom |-> vom,
                              sip |-> S.m[v], sop |-> S.m[v], sim |-> S.m[w], som |-> S.m[vom]])

firstWalk(T, S, v) ==
    LET children == T.kids[v]
        siblings == T.kids[T.par[v]]
        w == IF T.i[v] > 0 THEN siblings[T.i[v]] ELSE null
        S1 == IF Len(children) > 0 THEN executeShifts(T, S, v) ELSE S
        midpoint == (S1.z[children[1]] + S1.z[children[Len(children)]]) \div 2
        S2 == IF Len(children) > 0
              THEN IF w # null
                   THEN [S1 EXCEPT !.z[v] = S1.z[w] + separation(T, v, w),
                                   !.m[v] = S1.z[w] + separation(T, v, w) - midpoint]
                   ELSE [S1 EXCEPT !.z[v] = midpoint]
              ELSE IF w # null
                   THEN [S1 EXCEPT !.z[v] = S1.z[w] + separation(T, v, w)]
                   ELSE S1
        defaultAncestor == IF S2.A[T.par[v]] # null THEN S2.A[T.par[v]] ELSE siblings[1]
        done == apportion(T, S2, v, w, defaultAncestor)
    IN [done.S EXCEPT !.A[T.par[v]] = done.ancestor]

\* eachAfter: the children from left to right, then the node.
RECURSIVE postOrder(_, _)
RECURSIVE postOrderOfAll(_, _, _)
postOrder(T, u) == postOrderOfAll(T, T.kids[u], 1) \o <<u>>
postOrderOfAll(T, kids, i) ==
    IF i > Len(kids) THEN <<>> ELSE postOrder(T, kids[i]) \o postOrderOfAll(T, kids, i + 1)

RECURSIVE firstWalkAll(_, _, _, _)
firstWalkAll(T, S, order, i) ==
    IF i > Len(order) THEN S ELSE firstWalkAll(T, firstWalk(T, S, order[i]), order, i + 1)

\* secondWalk in eachBefore order: v._.x = v.z + v.parent.m; v.m += v.parent.m.
\* The result is x in steps of 1/ZUnit of the node size.
RECURSIVE secondWalk(_, _, _)
RECURSIVE secondWalkAll(_, _, _, _)
secondWalk(T, S, v) ==
    LET x == S.z[v] + S.m[T.par[v]]
        S1 == [S EXCEPT !.m[v] = @ + S.m[T.par[v]]]
    IN secondWalkAll(T, S1, T.kids[v], 1) @@ (v :> x)
secondWalkAll(T, S, kids, i) ==
    IF i > Len(kids) THEN <<>>
    ELSE secondWalk(T, S, kids[i]) @@ secondWalkAll(T, S, kids, i + 1)

\* tree(root) before sizeNode: the x of every node in steps of 1/ZUnit.
treeX(r) ==
    LET T == treeRoot(r)
        S == firstWalkAll(T, newTreeNodes(T), postOrder(T, r.rootUid), 1)
        S0 == [S EXCEPT !.m[0] = 0 - S.z[r.rootUid]]
    IN secondWalk(T, S0, r.rootUid)

\* One drawing unit in the steps x is kept in: dx is the largest width (in
\* tenths) times 1.1, and a node sits at a multiple of dx / ZUnit.
XUnit == 100 * ZUnit

SeqMax(f) == CHOOSE m \in {f[u] : u \in DOMAIN f} : \A u \in DOMAIN f : f[u] <= m

\* Mutant: the vertical step is the base height, not the largest height.
treeLayout_baseHeight(r, sizes) ==
    LET dx == SeqMax([u \in DOMAIN sizes |-> sizes[u].width]) * 11
        dy == MAIN_SHAPE_HEIGHT
        zx == treeX(r)
    IN [u \in DOMAIN sizes |-> [x |-> zx[u] * dx, y |-> r.depth[u] * dy]]

\* Mutant: the horizontal step is taken from the base width, not from the
\* widest node.
treeLayout_baseWidth(r, sizes) ==
    LET dx == MAIN_SHAPE_WIDTH * 10 * 11
        dy == SeqMax([u \in DOMAIN sizes |-> sizes[u].height])
        zx == treeX(r)
    IN [u \in DOMAIN sizes |-> [x |-> zx[u] * dx, y |-> r.depth[u] * dy]]

\* nodeSize([max width * 1.1, max height * 1.0]) and sizeNode: node.x *= dx;
\* node.y = node.depth * dy.  x in steps of 1/XUnit, y in units.
treeLayout(r, sizes) ==
    LET dx == SeqMax([u \in DOMAIN sizes |-> sizes[u].width]) * 11
        dy == SeqMax([u \in DOMAIN sizes |-> sizes[u].height])
        zx == treeX(r)
    IN [u \in DOMAIN sizes |-> [x |-> zx[u] * dx, y |-> r.depth[u] * dy]]

\* Lines 201-202.
LayoutTree ==
    /\ pc = "sized"
    /\ layout' = treeLayout(root, calc)
    /\ pc' = "laidout"
    /\ UNCHANGED <<harnessVars, argv, hier, root, calc, canvas, scene, stdout, stderr, exitCode>>

(***************************************************************************)
(* Bounding box, translation and svg size (lines 204-222 and 268-270).     *)
(* Horizontal values in steps of 1/XUnit, vertical values in units.        *)
(***************************************************************************)
\* Half of a width given in tenths of a unit, in steps of 1/XUnit.
halfWidth(width) == width * (XUnit \div 20)

SetMin(S) == CHOOSE m \in S : \A x \in S : m <= x
SetMax(S) == CHOOSE m \in S : \A x \in S : x <= m

\* Mutant: the tree is moved by the margin only, not by the margin less the
\* smallest left edge.
normalize_marginOnly(payload, sizes, pos) ==
    LET ids == DOMAIN pos
        minX == SetMin({0} \cup {pos[u].x - halfWidth(sizes[u].width) : u \in ids})
        maxX == SetMax({0} \cup {pos[u].x + halfWidth(sizes[u].width) : u \in ids})
        minY == SetMin({0} \cup {pos[u].y - sizes[u].height \div 2 : u \in ids})
        maxY == SetMax({0} \cup {pos[u].y + sizes[u].height \div 2 : u \in ids})
        treeWidth == maxX - minX
        treeHeight == maxY - minY
        inputBlockHeight == IF Truthy(payload.input)
                            THEN INPUT_BOX_HEIGHT + INPUT_TO_ROOT_SPACE ELSE 0
    IN [kind |-> "canvas",
        minX |-> minX, maxX |-> maxX, minY |-> minY, maxY |-> maxY,
        treeWidth |-> treeWidth, treeHeight |-> treeHeight,
        inputBlockHeight |-> inputBlockHeight,
        treeTranslateX |-> MARGIN_left * XUnit,
        treeTranslateY |-> MARGIN_top - minY + inputBlockHeight,
        finalSvgWidth |-> treeWidth + (MARGIN_left + MARGIN_right) * XUnit,
        finalSvgHeight |-> treeHeight + inputBlockHeight + MARGIN_top + MARGIN_bottom]

normalize(payload, sizes, pos) ==
    LET ids == DOMAIN pos
        minX == SetMin({0} \cup {pos[u].x - halfWidth(sizes[u].width) : u \in ids})
        maxX == SetMax({0} \cup {pos[u].x + halfWidth(sizes[u].width) : u \in ids})
        minY == SetMin({0} \cup {pos[u].y - sizes[u].height \div 2 : u \in ids})
        maxY == SetMax({0} \cup {pos[u].y + sizes[u].height \div 2 : u \in ids})
        treeWidth == maxX - minX
        treeHeight == maxY - minY
        inputBlockHeight == IF Truthy(payload.input)
                            THEN INPUT_BOX_HEIGHT + INPUT_TO_ROOT_SPACE ELSE 0
    IN [kind |-> "canvas",
        minX |-> minX, maxX |-> maxX, minY |-> minY, maxY |-> maxY,
        treeWidth |-> treeWidth, treeHeight |-> treeHeight,
        inputBlockHeight |-> inputBlockHeight,
        treeTranslateX |-> MARGIN_left * XUnit - minX,
        treeTranslateY |-> MARGIN_top - minY + inputBlockHeight,
        finalSvgWidth |-> treeWidth + (MARGIN_left + MARGIN_right) * XUnit,
        finalSvgHeight |-> treeHeight + inputBlockHeight + MARGIN_top + MARGIN_bottom]

NormalizeCanvas ==
    /\ pc = "laidout"
    /\ canvas' = normalize(argv, calc, layout)
    /\ pc' = "normalized"
    /\ UNCHANGED <<harnessVars, argv, hier, root, calc, layout, scene, stdout, stderr, exitCode>>

(***************************************************************************)
(* Drawing (lines 224-595).  Stroke widths in tenths of a unit.            *)
(***************************************************************************)
BASE_PENWIDTH == 10
HIGHLIGHT_PENWIDTH_NODE == 35
HIGHLIGHT_PENWIDTH_EDGE == 35
TRUE_LABEL_COLOR == "#00AA00"
FALSE_LABEL_COLOR == "#CC0000"
CUSTOM_LABEL_COLOR == "#000000"
BRANCH_FILLCOLOR == "#d6e4f1"
BRANCH_HIGHLIGHT_FILLCOLOR == "#FFD700"
LEAF_FILLCOLOR == "#a0c4ff"

quoted(text) == <<"\"">> \o text \o <<"\"">>

NoInputBox ==
    [drawn |-> FALSE, x |-> 0, y |-> 0, glow |-> FALSE, bold |-> FALSE, text |-> <<>>,
     lineY1 |-> 0, lineY2 |-> 0, lineWidth |-> 0]

\* Mutant: the input box never glows.
inputGlow_never(highlights) == FALSE

\* if (highlightUidSet.size > 0) { inputRect.style('filter', ...) }  (lines 232-244)
inputGlow(highlights) == Cardinality(highlights) > 0

\* Lines 224-266: the input box above the root and its dashed connector.
drawInput(payload, r, sizes, pos, cv) ==
    IF ~Truthy(payload.input) THEN NoInputBox
    ELSE LET rootX == pos[r.rootUid].x + cv.treeTranslateX
             rootY == pos[r.rootUid].y + cv.treeTranslateY
             inputBoxY == rootY - INPUT_TO_ROOT_SPACE - INPUT_BOX_HEIGHT
         IN [drawn |-> TRUE,
             x |-> rootX - (MAIN_SHAPE_WIDTH \div 2) * XUnit,
             y |-> inputBoxY,
             glow |-> inputGlow(payload.highlights),
             bold |-> Cardinality(payload.highlights) > 0,
             text |-> truncateText(quoted(payload.input.s), (MAIN_SHAPE_WIDTH - 10) * 10),
             lineY1 |-> inputBoxY + INPUT_BOX_HEIGHT,
             lineY2 |-> rootY - sizes[r.rootUid].height \div 2,
             lineWidth |-> IF Cardinality(payload.highlights) > 0
                           THEN HIGHLIGHT_PENWIDTH_EDGE ELSE BASE_PENWIDTH]

DrawInput ==
    /\ pc = "normalized"
    /\ scene' = [kind |-> "svg", width |-> canvas.finalSvgWidth, height |-> canvas.finalSvgHeight,
                 input |-> drawInput(argv, root, calc, layout, canvas),
                 links |-> <<>>, nodes |-> <<>>]
    /\ pc' = "inputdrawn"
    /\ UNCHANGED <<harnessVars, argv, hier, root, calc, layout, canvas, stdout, stderr, exitCode>>

\* Mutant: one highlighted end is enough.
isHighlightedEdge_either(highlights, source, target) ==
    source \in highlights \/ target \in highlights

\* highlightUidSet.has(d.source.data.uid) && highlightUidSet.has(d.target.data.uid)
isHighlightedEdge(highlights, source, target) ==
    source \in highlights /\ target \in highlights

\* Mutant: the custom key is shown for every label.
linkLabel_raw(info) == [fill |-> CUSTOM_LABEL_COLOR, text |-> info.label]

\* The fill and the text of the tspan (lines 282-292).
linkLabel(info) ==
    IF info.has /\ info.is_true THEN [fill |-> TRUE_LABEL_COLOR, text |-> <<"T", "r", "u", "e">>]
    ELSE IF info.has /\ info.is_false
    THEN [fill |-> FALSE_LABEL_COLOR, text |-> <<"F", "a", "l", "s", "e">>]
    ELSE [fill |-> CUSTOM_LABEL_COLOR, text |-> IF info.has THEN info.label ELSE <<>>]

\* One link of root.links(): the line, the arrowhead and the label.
drawLink(payload, h, sizes, pos, source, target) ==
    LET hl == isHighlightedEdge(payload.highlights, source, target)
        lab == linkLabel(h.edge_info[target])
    IN [source |-> source, target |-> target,
        x1 |-> pos[source].x, y1 |-> pos[source].y + sizes[source].height \div 2,
        x2 |-> pos[target].x, y2 |-> pos[target].y - sizes[target].height \div 2,
        strokeWidth |-> IF hl THEN HIGHLIGHT_PENWIDTH_EDGE ELSE BASE_PENWIDTH,
        marker |-> IF hl THEN "arrowhead-highlight" ELSE "arrowhead",
        bold |-> hl,
        fill |-> lab.fill, text |-> lab.text]

\* Lines 272-294: root.links() holds one link per node other than the root,
\* in the order of root.each.
DrawLinks ==
    /\ pc = "inputdrawn"
    /\ LET targets == SubSeq(root.descendants, 2, Len(root.descendants))
       IN scene' = [scene EXCEPT !.links =
                       [k \in 1..Len(targets) |->
                           drawLink(argv, hier, calc, layout,
                                    root.parent[targets[k]], targets[k])]]
    /\ pc' = "linksdrawn"
    /\ UNCHANGED <<harnessVars, argv, hier, root, calc, layout, canvas, stdout, stderr, exitCode>>

NoParserBox == [drawn |-> FALSE, y |-> 0, width |-> 0, lineY1 |-> 0, lineY2 |-> 0]

\* The example boxes (lines 346-379): each box at the bottom of the element
\* before it.
RECURSIVE exampleBoxes(_, _, _, _)
exampleBoxes(examples, k, lastElementBottomY, nodeW) ==
    IF k > Len(examples) THEN <<>>
    ELSE LET exampleBoxY == lastElementBottomY
         IN <<[y |-> exampleBoxY,
               text |-> truncateText(quoted(examples[k]), nodeW - 10 * 10)]>>
            \o exampleBoxes(examples, k + 1, exampleBoxY + INPUT_BOX_HEIGHT, nodeW)

\* One node group (lines 302-595), in the node's own frame: y = 0 is the
\* node's centre.
drawNode(data, size, isHighlighted, anyHighlighted) ==
    LET blockTopY == 0 - size.height \div 2
        penwidth == IF isHighlighted THEN HIGHLIGHT_PENWIDTH_NODE ELSE BASE_PENWIDTH
    IN IF ~data.leaf
       THEN [uid |-> data.uid, leaf |-> FALSE, threw |-> FALSE, highlighted |-> isHighlighted,
             fill |-> IF isHighlighted THEN BRANCH_HIGHLIGHT_FILLCOLOR ELSE BRANCH_FILLCOLOR,
             penwidth |-> penwidth, top |-> blockTopY,
             text |-> truncateText(data.label.s, size.width - 10 * 10),
             examples |-> <<>>, parser |-> NoParserBox, output |-> NoOutputBox]
       ELSE LET leafBottomY == blockTopY + MAIN_SHAPE_HEIGHT
                hasExamples == Len(data.examples) > 0
                boxes == exampleBoxes(data.examples, 1, leafBottomY, size.width)
                examplesBottomY == IF hasExamples
                                   THEN boxes[Len(boxes)].y + INPUT_BOX_HEIGHT
                                   ELSE leafBottomY
                \* currentY = lastElementBottomY - blockTopY after the examples
                currentY == IF hasExamples THEN examplesBottomY - blockTopY ELSE leafBottomY
                parserY == IF hasExamples
                           THEN currentY + LEAF_TO_PARSER_SPACE - 8
                           ELSE currentY + LEAF_TO_PARSER_SPACE
                parserTextWidth == Len(data.parser.s) * MONO_CHAR_WIDTH_PARSER + 16 * 10
                parser == IF Truthy(data.parser)
                          THEN [drawn |-> TRUE, y |-> parserY,
                                width |-> Min(parserTextWidth, size.width),
                                lineY1 |-> examplesBottomY + 1, lineY2 |-> parserY - 1]
                          ELSE NoParserBox
                lastElementBottomY == IF Truthy(data.parser)
                                      THEN parserY + PARSER_BOX_HEIGHT
                                      ELSE examplesBottomY
                output == drawOutput(data.output, hasExamples, isHighlighted,
                                     anyHighlighted, lastElementBottomY)
            IN [uid |-> data.uid, leaf |-> TRUE, threw |-> output.threw,
                highlighted |-> isHighlighted, fill |-> LEAF_FILLCOLOR,
                penwidth |-> penwidth, top |-> blockTopY,
                text |-> truncateText(data.typ.s, size.width - 10 * 10),
                examples |-> boxes, parser |-> parser, output |-> output]

\* Lines 296-595: one group per node; an error in a node ends the script in
\* the catch block.
DrawNodes ==
    /\ pc = "linksdrawn"
    /\ LET drawn == [u \in DOMAIN calc |->
                        drawNode(dataOf(argv, u), calc[u], u \in argv.highlights,
                                 Cardinality(argv.highlights) > 0)]
       IN IF \E u \in DOMAIN drawn : drawn[u].threw
          THEN /\ Fail("Error during SVG generation")
               /\ UNCHANGED scene
          ELSE /\ scene' = [scene EXCEPT !.nodes = drawn]
               /\ pc' = "nodesdrawn"
               /\ UNCHANGED <<stdout, stderr, exitCode>>
    /\ UNCHANGED <<harnessVars, argv, hier, root, calc, layout, canvas>>

\* Line 597: console.log(body.select('svg').node().outerHTML); the script
\* then ends and the process exits with code 0.
WriteDocument ==
    /\ pc = "nodesdrawn"
    /\ stdout' = Append(stdout, scene)
    /\ exitCode' = 0
    /\ pc' = "done"
    /\ UNCHANGED <<harnessVars, argv, hier, root, calc, layout, canvas, scene, stderr>>

Next ==
    \/ ParsePayload
    \/ BuildTree
    \/ SortAndSize
    \/ LayoutTree
    \/ NormalizeCanvas
    \/ DrawInput
    \/ DrawLinks
    \/ DrawNodes
    \/ WriteDocument

Spec == Init /\ [][Next]_vars

(***************************************************************************)
(* Properties of the main script.                                          *)
(***************************************************************************)
LinksDrawn == scene.kind = "svg" /\ pc \in {"linksdrawn", "nodesdrawn", "done"}
NodesDrawn == scene.kind = "svg" /\ pc \in {"nodesdrawn", "done"}

DrawnHighlighted(l) ==
    l.strokeWidth = HIGHLIGHT_PENWIDTH_EDGE /\ l.marker = "arrowhead-highlight" /\ l.bold

DrawnPlain(l) ==
    l.strokeWidth = BASE_PENWIDTH /\ l.marker = "arrowhead" /\ ~l.bold

\* C4: every rendered edge is an edge of the payload, and it is drawn
\* highlighted (thick stroke, highlight arrowhead, bold label) if and only if
\* both its source uid and its target uid are in the highlight set; otherwise
\* it is drawn plain.
C4_EdgeHighlight ==
    /\ LinksDrawn =>
          {<<scene.links[k].source, scene.links[k].target>> : k \in 1..Len(scene.links)}
             \subseteq {<<argv.edges[k].source, argv.edges[k].target>> : k \in 1..Len(argv.edges)}
    /\ scene.kind = "svg" =>
          \A k \in 1..Len(scene.links) :
             LET l == scene.links[k]
             IN IF l.source \in argv.highlights /\ l.target \in argv.highlights
                THEN DrawnHighlighted(l)
                ELSE DrawnPlain(l)

\* A finished drawing with a highlighted edge A->B followed by an edge B->C
\* whose target is outside the highlight set and which is drawn plain.
C4_Witness ==
    /\ pc = "done"
    /\ \E i, j \in 1..Len(scene.links) :
          /\ DrawnHighlighted(scene.links[i])
          /\ scene.links[j].source = scene.links[i].target
          /\ scene.links[j].target \notin argv.highlights
          /\ DrawnPlain(scene.links[j])

\* The nodes of the subtree rooted at u.
RECURSIVE IsUnder(_, _)
IsUnder(v, u) == IF v = u THEN TRUE ELSE IF v = 0 THEN FALSE ELSE IsUnder(root.parent[v], u)

subtree(u) == {v \in DOMAIN layout : IsUnder(v, u)}

left(v) == layout[v].x - halfWidth(calc[v].width)
right(v) == layout[v].x + halfWidth(calc[v].width)

Disjoint(S, T) ==
    \/ SetMax({right(v) : v \in S}) < SetMin({left(v) : v \in T})
    \/ SetMax({right(v) : v \in T}) < SetMin({left(v) : v \in S})

Siblings(a, b) == a # b /\ root.parent[a] # 0 /\ root.parent[a] = root.parent[b]

LaidOut == layout # <<>> /\ root.kind = "hierarchy"

\* C6 as stated: after layout, the horizontal extents of the subtrees of two
\* siblings, taken over all the nodes of each subtree, do not intersect.
C6_SiblingExtentsDisjoint ==
    LaidOut => \A a, b \in DOMAIN layout :
                  Siblings(a, b) => Disjoint(subtree(a), subtree(b))

atDepth(S, d) == {v \in S : root.depth[v] = d}

\* C6 (amended): after layout, for two siblings and every depth at which both
\* of their subtrees have nodes, the horizontal extents of the two subtrees'
\* nodes at that depth do not intersect.
C6_SiblingExtentsDisjointPerDepth ==
    LaidOut => \A a, b \in DOMAIN layout :
                  Siblings(a, b) =>
                     \A d \in 0..MaxNodes :
                        (atDepth(subtree(a), d) # {} /\ atDepth(subtree(b), d) # {})
                           => Disjoint(atDepth(subtree(a), d), atDepth(subtree(b), d))

\* Two laid out siblings, one with children and one without, whose whole
\* extents intersect although their nodes are apart at every depth.
C6_Witness ==
    /\ LaidOut
    /\ \E a, b \in DOMAIN layout :
          /\ Siblings(a, b)
          /\ subtree(a) # {a} /\ subtree(b) = {b}
          /\ ~Disjoint(subtree(a), subtree(b))
          /\ Disjoint({a}, {b})

uidsOf(payload) ==
    {payload.branches[k].uid : k \in 1..Len(payload.branches)}
       \cup {payload.leaves[k].uid : k \in 1..Len(payload.leaves)}

\* The fatal conditions, read off the payload alone.
Fatal(payload) ==
    IF payload.kind # "object" THEN TRUE
    ELSE IF ~(payload.has.branches /\ payload.has.leaves
              /\ payload.has.edges /\ payload.has.highlights) THEN TRUE
    ELSE IF uidsOf(payload) = {} THEN TRUE
    ELSE IF Cardinality({u \in uidsOf(payload) :
                            \A k \in 1..Len(payload.edges) : payload.edges[k].target # u}) # 1
    THEN TRUE
    ELSE IF \E k \in 1..Len(payload.branches) : payload.branches[k].name.kind # "string"
    THEN TRUE
    ELSE \E k \in 1..Len(payload.leaves) : payload.leaves[k].output = NotAString

\* C8: a run on a payload with a fatal condition never writes to standard
\* output and ends with exit code 1; standard output receives at most one
\* document, the complete drawing, written by the last step of a run in
\* which every stage completed.
C8_NoPartialOutput ==
    /\ Len(stdout) <= 1
    /\ stdout # <<>> =>
          /\ pc = "done" /\ exitCode = 0 /\ ~Fatal(argv)
          /\ stdout[1] = scene /\ scene.kind = "svg"
          /\ DOMAIN scene.nodes = {root.descendants[k] : k \in 1..Len(root.descendants)}
          /\ Len(scene.links) = Len(root.descendants) - 1
    /\ pc = "done" => stdout # <<>>
    /\ pc = "exit" =>
          /\ stdout = <<>> /\ exitCode = 1 /\ stderr # <<>> /\ Fatal(argv)
    /\ pc \notin {"done", "exit"} => stdout = <<>> /\ exitCode = -1
    /\ Fatal(argv) => pc \notin {"nodesdrawn", "done"}

\* A run that failed while drawing: the drawing was under construction, and
\* nothing of it reached standard output.
C8_Witness ==
    /\ pc = "exit" /\ exitCode = 1 /\ stdout = <<>>
    /\ scene.kind = "svg" /\ Len(scene.links) > 0

\* A run that failed before anything was built.
C8_WitnessEarly == pc = "exit" /\ exitCode = 1 /\ stdout = <<>> /\ hier.kind = "none"

\* s is word up to the case of its letters.
IsWord(s, lower, upper) ==
    /\ Len(s) = Len(lower)
    /\ \A i \in 1..Len(s) : s[i] = lower[i] \/ s[i] = upper[i]

IsTrueWord(s) == IsWord(s, <<"t", "r", "u", "e">>, <<"T", "R", "U", "E">>)
IsFalseWord(s) == IsWord(s, <<"f", "a", "l", "s", "e">>, <<"F", "A", "L", "S", "E">>)

\* C9: for every edge attached by buildHierarchy, exactly one of is_true,
\* is_false, is_custom holds on the child's edge metadata, decided by the
\* case-insensitive comparison of the edge label with "true" and "false" (a
\* missing label is custom with empty text); the edge is labelled "True" in
\* green, "False" in red, or with the raw label in the neutral colour.
C9_EdgeInterpretation ==
    /\ hier.kind = "node" =>
          \A k \in 1..Len(argv.edges) :
             LET e == argv.edges[k]
                 label == IF e.label.kind = "string" THEN e.label.s ELSE <<>>
                 info == hier.edge_info[e.target]
             IN (e.source \in uidsOf(argv) /\ e.target \in uidsOf(argv)) =>
                   /\ info.has /\ info.label = label
                   /\ info.is_true = IsTrueWord(label)
                   /\ info.is_false = IsFalseWord(label)
                   /\ info.is_custom = (~IsTrueWord(label) /\ ~IsFalseWord(label))
                   /\ Cardinality({f \in {"is_true", "is_false", "is_custom"} : info[f]}) = 1
    /\ scene.kind = "svg" =>
          \A k \in 1..Len(scene.links) :
             LET l == scene.links[k]
                 info == hier.edge_info[l.target]
             IN /\ info.is_true =>
                      l.text = <<"T", "r", "u", "e">> /\ l.fill = TRUE_LABEL_COLOR
                /\ info.is_false =>
                      l.text = <<"F", "a", "l", "s", "e">> /\ l.fill = FALSE_LABEL_COLOR
                /\ info.is_custom => l.text = info.label /\ l.fill = CUSTOM_LABEL_COLOR

\* A finished drawing with an upper-case TRUE edge shown as "True", a custom
\* edge shown with its key, and an edge without a label shown with no text.
C9_Witness ==
    /\ pc = "done"
    /\ \E i, j, k \in 1..Len(scene.links) :
          /\ hier.edge_info[scene.links[i].target].label = <<"T", "R", "U", "E">>
          /\ scene.links[i].text = <<"T", "r", "u", "e">>
          /\ hier.edge_info[scene.links[j].target].is_custom
          /\ scene.links[j].text = <<"y", "e", "s">>
          /\ hier.edge_info[scene.links[k].target].is_custom
          /\ scene.links[k].text = <<>>

StructuredOutputs == {u \in DOMAIN scene.nodes :
                         scene.nodes[u].output.drawn /\ scene.nodes[u].output.structured}

\* C10 as stated: whenever the highlight set is non-empty the input box and
\* every structured output box glow, whichever node is highlighted, and with
\* an empty highlight set no box glows.
C10_GlowGlobal ==
    NodesDrawn =>
       /\ scene.input.drawn => (scene.input.glow <=> argv.highlights # {})
       /\ \A u \in StructuredOutputs :
             scene.nodes[u].output.glow <=> argv.highlights # {}

\* C10 (amended): the input box, if present, glows if and only if the
\* highlight set is non-empty, whichever node is highlighted; a structured
\* output box glows if and only if its own leaf is in the highlight set; with
\* an empty highlight set no box glows.
C10_GlowInputGlobalOutputPerLeaf ==
    NodesDrawn =>
       /\ scene.input.drawn => (scene.input.glow <=> argv.highlights # {})
       /\ ~scene.input.drawn => ~scene.input.glow
       /\ \A u \in StructuredOutputs :
             scene.nodes[u].output.glow <=> u \in argv.highlights
       /\ \A u \in DOMAIN scene.nodes \ StructuredOutputs : ~scene.nodes[u].output.glow

\* A finished drawing with a glowing input box, a glowing structured output
\* box under a highlighted leaf and a structured output box without glow
\* under a leaf outside the highlight set.
C10_Witness ==
    /\ pc = "done"
    /\ scene.input.drawn /\ scene.input.glow
    /\ \E u, w \in StructuredOutputs :
          /\ u \in argv.highlights /\ scene.nodes[u].output.glow
          /\ w \notin argv.highlights /\ ~scene.nodes[w].output.glow

top(v) == layout[v].y - calc[v].height \div 2
bottom(v) == layout[v].y + calc[v].height \div 2

Normalized == canvas.kind = "canvas" /\ layout # <<>>

\* The band reserved above the root for the input annotation.
inputBand == IF argv.input.kind = "string" /\ argv.input.s # <<>>
             THEN INPUT_BOX_HEIGHT + INPUT_TO_ROOT_SPACE ELSE 0

\* C11: after normalization the translated footprint of every node lies
\* inside the canvas: the smallest left edge is MARGIN.left, the smallest top
\* edge is MARGIN.top plus the input band, the largest right edge is the
\* canvas width less MARGIN.right, the largest bottom edge is the canvas
\* height less MARGIN.bottom, and the canvas is the bounding box of the
\* footprints plus the margins and the input band.
C11_FootprintsInsideCanvas ==
    Normalized =>
       LET ids == DOMAIN layout
           lefts == {left(u) + canvas.treeTranslateX : u \in ids}
           rights == {right(u) + canvas.treeTranslateX : u \in ids}
           tops == {top(u) + canvas.treeTranslateY : u \in ids}
           bottoms == {bottom(u) + canvas.treeTranslateY : u \in ids}
       IN /\ SetMin(lefts) = MARGIN_left * XUnit
          /\ SetMin(tops) = MARGIN_top + inputBand
          /\ SetMax(rights) = canvas.finalSvgWidth - MARGIN_right * XUnit
          /\ SetMax(bottoms) = canvas.finalSvgHeight - MARGIN_bottom
          /\ canvas.finalSvgWidth =
                (SetMax(rights) - SetMin(lefts)) + (MARGIN_left + MARGIN_right) * XUnit
          /\ canvas.finalSvgHeight =
                (SetMax(bottoms) - SetMin(tops)) + inputBand + MARGIN_top + MARGIN_bottom
          /\ \A u \in ids :
                /\ 0 <= left(u) + canvas.treeTranslateX
                /\ right(u) + canvas.treeTranslateX <= canvas.finalSvgWidth
                /\ 0 <= top(u) + canvas.treeTranslateY
                /\ bottom(u) + canvas.treeTranslateY <= canvas.finalSvgHeight

\* A normalized tree with an input annotation, nodes on three levels and a
\* leftmost node that is not the root.
C11_Witness ==
    /\ Normalized /\ pc = "normalized"
    /\ inputBand > 0
    /\ \E u, w \in DOMAIN layout :
          /\ root.depth[u] = 2
          /\ left(w) < left(root.rootUid)
          /\ left(w) + canvas.treeTranslateX = MARGIN_left * XUnit

(***************************************************************************)
(* Properties of truncateText.                                             *)
(***************************************************************************)
Truncated == pc \in {"truncated", "retruncated"}

\* The number of whole characters that fit beside the ellipsis in maxWidth:
\* the integer k with k * charWidth <= maxWidth - 3 * charWidth < (k + 1) * charWidth.
fitBeside(maxWidth) ==
    CHOOSE k \in (0 - 4)..(MaxLen + 4) :
       /\ k * MONO_CHAR_WIDTH <= maxWidth - 3 * MONO_CHAR_WIDTH
       /\ maxWidth - 3 * MONO_CHAR_WIDTH < (k + 1) * MONO_CHAR_WIDTH

halfUp(k) == CHOOSE c \in 0..(MaxLen + 4) : 2 * c >= k /\ 2 * c <= k + 1

firstChars(text, n) == SubSeq(text, 1, n)
lastChars(text, n) == SubSeq(text, Len(text) - n + 1, Len(text))

\* C12: truncateText returns the text unchanged when length * charWidth is
\* at most maxWidth; otherwise, with k characters fitting beside the
\* ellipsis, it returns "..." alone when k < 2 and else the first ceil(k/2)
\* characters, "...", and the last k - ceil(k/2) characters.
C12_TruncationRule ==
    Truncated =>
       LET text == trunc.text
           k == fitBeside(trunc.maxWidth)
       IN IF Len(text) * MONO_CHAR_WIDTH <= trunc.maxWidth THEN trunc.once = text
          ELSE IF k < 2 THEN trunc.once = <<".", ".", ".">>
          ELSE trunc.once = firstChars(text, halfUp(k)) \o <<".", ".", ".">>
                               \o lastChars(text, k - halfUp(k))

\* A text cut with an odd number of kept characters: two on the left of the
\* ellipsis and one on the right.
C12_Witness ==
    /\ pc = "truncated"
    /\ Len(trunc.text) * MONO_CHAR_WIDTH > trunc.maxWidth
    /\ fitBeside(trunc.maxWidth) = 3
    /\ Len(trunc.once) = 6
    /\ trunc.text[1] # trunc.text[2] /\ trunc.text[Len(trunc.text)] = "b"
    /\ trunc.once[6] = "b"

(***************************************************************************)
(* Properties of the sizing stage.                                         *)
(***************************************************************************)
Sized == calc # <<>> /\ root.kind = "hierarchy"

IsBranch(u) == \E k \in 1..Len(argv.branches) : argv.branches[k].uid = u
branchOf(u) == argv.branches[CHOOSE k \in 1..Len(argv.branches) : argv.branches[k].uid = u]
leafOf(u) == argv.leaves[CHOOSE k \in 1..Len(argv.leaves) : argv.leaves[k].uid = u]

clamp(x, lo, hi) == IF x < lo THEN lo ELSE IF x > hi THEN hi ELSE x

\* A field is present when the payload gives it a value other than the empty
\* string.
present(f) == f.kind # "undefined" /\ ~(f.kind = "string" /\ f.s = <<>>)

\* The footprint the formulas give a node, from its own payload entry.
statedWidth(u) ==
    IF IsBranch(u)
    THEN clamp(Len(branchOf(u).name.s) * MONO_CHAR_WIDTH + 200,
               MAIN_SHAPE_WIDTH * 10, 2 * MAIN_SHAPE_WIDTH * 10)
    ELSE LET l == leafOf(u)
             typeTextWidth == Len(l.typ.s) * MONO_CHAR_WIDTH + 200
             parserTextWidth == IF present(l.parser)
                                THEN Len(l.parser.s) * MONO_CHAR_WIDTH_PARSER + 160 ELSE 0
         IN clamp(IF typeTextWidth >= parserTextWidth THEN typeTextWidth ELSE parserTextWidth,
                  MAIN_SHAPE_WIDTH * 10, 2 * MAIN_SHAPE_WIDTH * 10)

statedHeight(u) ==
    IF IsBranch(u) THEN MAIN_SHAPE_HEIGHT
    ELSE LET l == leafOf(u)
         IN MAIN_SHAPE_HEIGHT
            + (IF present(l.parser) THEN LEAF_TO_PARSER_SPACE + PARSER_BOX_HEIGHT ELSE 0)
            + Len(l.examples) * INPUT_BOX_HEIGHT
            + (IF present(l.output) THEN LEAF_TO_OUTPUT_SPACE + OUTPUT_BOX_HEIGHT ELSE 0)

\* C13: the sizing stage gives every node the footprint of the formulas,
\* computed from the node's own fields: the clamped label width and the base
\* height for a branch; the clamped larger of the type and parser text widths
\* and the base height plus the parser band, one example-box height per
\* example and the output band for a leaf.  Every width lies between the base
\* width and twice the base width.
C13_FootprintFormulas ==
    Sized => \A u \in DOMAIN calc :
                /\ calc[u].width = statedWidth(u)
                /\ calc[u].height = statedHeight(u)
                /\ MAIN_SHAPE_WIDTH * 10 <= calc[u].width
                /\ calc[u].width <= 2 * MAIN_SHAPE_WIDTH * 10

\* A sized tree with a node at the cap whose text alone would be wider, a node
\* strictly between the two limits, and a leaf with six examples.
C13_Witness ==
    /\ Sized /\ pc = "sized"
    /\ \E u, v, w \in DOMAIN calc :
          /\ calc[u].width = 2 * MAIN_SHAPE_WIDTH * 10
          /\ calc[v].width > MAIN_SHAPE_WIDTH * 10 /\ calc[v].width < 2 * MAIN_SHAPE_WIDTH * 10
          /\ ~IsBranch(w) /\ Len(leafOf(w).examples) = 6
          /\ calc[w].height >= MAIN_SHAPE_HEIGHT + 6 * INPUT_BOX_HEIGHT

(***************************************************************************)
(* Properties of the order of the children.                                *)
(***************************************************************************)
\* The place in the payload's edge list of the edge into u.
edgeIndex(u) == CHOOSE k \in 1..Len(argv.edges) : argv.edges[k].target = u

trueLabelled(u) ==
    LET label == argv.edges[edgeIndex(u)].label
    IN label.kind = "string" /\ IsTrueWord(label.s)

\* a may stand left of b among the children of one node.
mayPrecede(a, b) ==
    IF trueLabelled(a) = trueLabelled(b) THEN edgeIndex(a) < edgeIndex(b)
    ELSE trueLabelled(b)

\* C14: among the children of every node, every child whose inbound edge is
\* not true-labelled comes before every true-labelled child, children of the
\* same group keep the order of their edges in the payload's edge list, and
\* the layout places the children left to right in that order.
C14_ChildOrder ==
    /\ root.kind = "hierarchy" =>
          \A q \in DOMAIN root.kids :
             \A i, j \in 1..Len(root.kids[q]) :
                i < j => mayPrecede(root.kids[q][i], root.kids[q][j])
    /\ LaidOut =>
          \A a, b \in DOMAIN layout :
             (Siblings(a, b) /\ mayPrecede(a, b)) => layout[a].x < layout[b].x

\* A laid out node with a true-labelled child whose edge is listed before the
\* edges of two other children, themselves listed against the order of their
\* uids: the true-labelled child is the rightmost.
C14_Witness ==
    /\ LaidOut /\ pc = "laidout"
    /\ \E a, b, c \in DOMAIN layout :
          /\ Siblings(a, b) /\ Siblings(b, c) /\ a # c
          /\ trueLabelled(c) /\ ~trueLabelled(a) /\ ~trueLabelled(b)
          /\ edgeIndex(c) < edgeIndex(a) /\ edgeIndex(a) < edgeIndex(b)
          /\ b < a
          /\ layout[a].x < layout[b].x /\ layout[b].x < layout[c].x

(***************************************************************************)
(* Properties of the vertical placement.                                   *)
(***************************************************************************)
largestHeight == SetMax({calc[u].height : u \in DOMAIN calc})

\* C15: after layout every node's y is its depth times the largest footprint
\* height of the whole tree, so y strictly increases with depth; the top edge
\* of a child's footprint is at or below the bottom edge of its parent's, the
\* footprints of different levels do not overlap vertically, and no drawn
\* connector points upward.
C15_LevelsApart ==
    /\ LaidOut =>
          /\ \A u \in DOMAIN layout : layout[u].y = root.depth[u] * largestHeight
          /\ \A u, v \in DOMAIN layout :
                root.depth[u] < root.depth[v] =>
                   /\ layout[u].y < layout[v].y
                   /\ bottom(u) <= top(v)
          /\ \A v \in DOMAIN layout :
                root.parent[v] # 0 => bottom(root.parent[v]) <= top(v)
    /\ scene.kind = "svg" =>
          \A k \in 1..Len(scene.links) :
             /\ scene.links[k].y1 = bottom(scene.links[k].source)
             /\ scene.links[k].y2 = top(scene.links[k].target)
             /\ scene.links[k].y1 <= scene.links[k].y2

\* Drawn links on three levels in a tree whose tallest node is a leaf with
\* examples: a connector from a branch of base height to that leaf.
C15_Witness ==
    /\ pc = "linksdrawn"
    /\ largestHeight > 4 * MAIN_SHAPE_HEIGHT
    /\ \E k \in 1..Len(scene.links) :
          /\ root.depth[scene.links[k].target] = 2
          /\ calc[scene.links[k].target].height = largestHeight
          /\ calc[scene.links[k].source].height = MAIN_SHAPE_HEIGHT
          /\ scene.links[k].y1 < scene.links[k].y2

(***************************************************************************)
(* Properties of the input box.                                            *)
(***************************************************************************)
\* The top edge of the root's footprint on the canvas.
rootTopOnCanvas == top(root.rootUid) + canvas.treeTranslateY

\* C16: whenever an input annotation is present, the input box lies in the
\* band reserved above the root: its top edge is at or below the top margin,
\* its bottom edge is not below the top edge of the root's footprint, and the
\* dashed connector runs downward from the box's bottom to the root's top.
C16_InputBoxInBand ==
    (scene.kind = "svg" /\ scene.input.drawn) =>
       /\ MARGIN_top <= scene.input.y
       /\ scene.input.y + INPUT_BOX_HEIGHT <= rootTopOnCanvas
       /\ scene.input.lineY1 = scene.input.y + INPUT_BOX_HEIGHT
       /\ scene.input.lineY2 = rootTopOnCanvas
       /\ scene.input.lineY1 <= scene.input.lineY2

(***************************************************************************)
(* Properties of the leaf's stack of boxes, in the node's own frame (y = 0 *)
(* is the node's centre).                                                  *)
(***************************************************************************)
DrawnLeaves == {u \in DOMAIN scene.nodes : scene.nodes[u].leaf}

\* The span from y to y + height lies within the footprint of node u.
withinFootprint(u, y, height) ==
    /\ 0 - calc[u].height \div 2 <= y
    /\ y + height <= calc[u].height \div 2

\* C17: for every leaf, each example box, the parser box and the output box
\* drawn by the renderer lies vertically within the leaf's footprint.
C17_StackInsideFootprint ==
    NodesDrawn =>
       \A u \in DrawnLeaves :
          LET n == scene.nodes[u]
          IN /\ \A k \in 1..Len(n.examples) :
                   withinFootprint(u, n.examples[k].y, INPUT_BOX_HEIGHT)
             /\ n.parser.drawn => withinFootprint(u, n.parser.y, PARSER_BOX_HEIGHT)
             /\ n.output.drawn => withinFootprint(u, n.output.y, OUTPUT_BOX_HEIGHT)

\* The bottom edge of the element drawn before the parser box of node u: the
\* last example box, or the leaf rectangle when there are no examples.
precedingBottom(u) ==
    LET n == scene.nodes[u]
    IN IF Len(n.examples) > 0
       THEN n.examples[Len(n.examples)].y + INPUT_BOX_HEIGHT
       ELSE n.top + MAIN_SHAPE_HEIGHT

\* C18: for every leaf with a parser, the top edge of the parser box is at
\* most LEAF_TO_PARSER_SPACE below the bottom edge of the element before it,
\* with examples as without, and the dashed segment between them is as short.
C18_ParserDirectlyBeneath ==
    NodesDrawn =>
       \A u \in DrawnLeaves :
          LET n == scene.nodes[u]
          IN n.parser.drawn =>
                /\ precedingBottom(u) <= n.parser.y
                /\ n.parser.y - precedingBottom(u) <= LEAF_TO_PARSER_SPACE
                /\ n.parser.lineY2 - n.parser.lineY1 <= LEAF_TO_PARSER_SPACE

\* C19: for every text and every maxWidth of at least three character widths
\* the estimated width (length * charWidth) of the truncated text is at most
\* maxWidth, and for every maxWidth the truncated text is not longer than the
\* longer of the text and the ellipsis.
C19_TruncatedTextFits ==
    Truncated =>
       /\ trunc.maxWidth >= 3 * MONO_CHAR_WIDTH =>
             Len(trunc.once) * MONO_CHAR_WIDTH <= trunc.maxWidth
       /\ Len(trunc.once) <= (IF Len(trunc.text) >= 3 THEN Len(trunc.text) ELSE 3)

\* A text cut to both ends around the ellipsis that fills its width to less
\* than one character.
C19_Witness ==
    /\ pc = "truncated"
    /\ trunc.once # trunc.text
    /\ Len(trunc.once) >= 5
    /\ Len(trunc.once) * MONO_CHAR_WIDTH <= trunc.maxWidth
    /\ trunc.maxWidth < (Len(trunc.once) + 1) * MONO_CHAR_WIDTH
    /\ trunc.maxWidth % MONO_CHAR_WIDTH # 0

====
